---- MODULE Spec2Model ----
(***************************************************************************)
(* Model of the TED-B dashboard's data layer (lib/tezos.ts: tezosService   *)
(* and its fetch helpers) and of the refresh cycle that drives it          *)
(* (components/TezosDashboard.tsx: loadData).                              *)
(*                                                                         *)
(* JavaScript values are tagged records: [t |-> "undef"], [t |-> "null"],  *)
(* [t |-> "num", v |-> n], [t |-> "str", v |-> s], [t |-> "arr", v |-> q], *)
(* [t |-> "obj", ...fields].  A call either returns, [t |-> "ret", v], or  *)
(* raises, [t |-> "throw"].                                                *)
(***************************************************************************)
EXTENDS Integers, Sequences, FiniteSets, TLC

VARIABLES
    stats,        \* useState<DomainStats | null>
    activity,     \* useState<ActivityItem[]>
    growthData,   \* useState<ChartData[]>
    topHolders,   \* useState<{address, count}[]>
    extensions,   \* useState<ExtensionData[]>
    loading,      \* useState(true)
    refreshing,   \* useState(false)
    lastUpdated,  \* useState<Date | null>, a logical clock value or Null
    inflight,     \* the loadData calls that have started and not yet settled
    started,      \* how many loadData calls have started
    settled,      \* how many loadData calls have settled
    last,         \* history: the most recently settled loadData call
    call,         \* the service call under examination (function and inputs)
    ret           \* what that call produced, Pending until it has run

vars == <<stats, activity, growthData, topHolders, extensions, loading,
          refreshing, lastUpdated, inflight, started, settled, last, call, ret>>

dashVars == <<stats, activity, growthData, topHolders, extensions, loading,
              refreshing, lastUpdated, inflight, started, settled, last>>

--------------------------------------------------------------------------
(* JavaScript values *)

Undefined == [t |-> "undef"]
Null == [t |-> "null"]
NaN == [t |-> "nan"]
Num(n) == [t |-> "num", v |-> n]
Str(s) == [t |-> "str", v |-> s]
Arr(q) == [t |-> "arr", v |-> q]

Ret(x) == [t |-> "ret", v |-> x]
Throw == [t |-> "throw"]
Pending == [t |-> "pending"]
Idle == [fn |-> "none"]

\* ToBoolean
Truthy(x) ==
    CASE x.t = "undef" -> FALSE
      [] x.t = "null" -> FALSE
      [] x.t = "nan" -> FALSE
      [] x.t = "num" -> x.v # 0
      [] x.t = "str" -> x.v # ""
      [] x.t = "text" -> x.c # <<>>
      [] OTHER -> TRUE

\* Array.isArray
IsArray(x) == x.t = "arr"

--------------------------------------------------------------------------
(* Bounds of the examined inputs *)

MaxBody == 3
MaxWritten == 120
MaxCount == 17
MaxTail == 3
MaxBuys == 16
MaxRenews == 11
MaxGrowthOps == 2
MaxCycles == 3
MaxHex == 4
MaxLabel == 2
MaxStatOps == 2
MaxClockTick == 1
MaxLoads == 2

--------------------------------------------------------------------------
(* HTTP: what fetch(url) and res.text() can do.  A request either rejects  *)
(* (network failure), or resolves with a status (ok or not) and a body     *)
(* whose read may itself reject.  A body is a sequence of characters (for  *)
(* count endpoints) or of JSON lexemes (for list endpoints).               *)

NetFail == [net |-> "fail"]
Resp(ok, read, text) == [net |-> "ok", ok |-> ok, read |-> read, text |-> text]

Space == " "
Digits == {"0", "1", "7"}
Chars == Digits \cup {Space, "-", "a"}

DigitVal(c) == CASE c = "0" -> 0 [] c = "1" -> 1 [] c = "7" -> 7

RECURSIVE SkipSpace(_)
SkipSpace(s) ==
    IF s # <<>> /\ Head(s) = Space THEN SkipSpace(Tail(s)) ELSE s

RECURSIVE DigitPrefix(_)
DigitPrefix(s) ==
    IF s # <<>> /\ Head(s) \in Digits
    THEN <<Head(s)>> \o DigitPrefix(Tail(s))
    ELSE <<>>

RECURSIVE DigitsValue(_, _)
DigitsValue(s, acc) ==
    IF s = <<>> THEN acc ELSE DigitsValue(Tail(s), acc * 10 + DigitVal(Head(s)))

\* parseInt(text, 10): leading white space is skipped, an optional sign is
\* read, then the longest run of decimal digits; NaN when that run is empty.
\* Whatever follows the digits is ignored.
parseInt(text) ==
    LET s == SkipSpace(text)
        neg == s # <<>> /\ Head(s) = "-"
        body == IF neg THEN Tail(s) ELSE s
        ds == DigitPrefix(body)
    IN  IF ds = <<>> THEN NaN
        ELSE Num(IF neg THEN 0 - DigitsValue(ds, 0) ELSE DigitsValue(ds, 0))

\* JSON lexemes: punctuation and whole scalar/object values.
Punct(c) == [t |-> "punct", v |-> c]
LBracket == Punct("[")
RBracket == Punct("]")
Comma == Punct(",")
IsPunct(tok, c) == tok.t = "punct" /\ tok.v = c
IsValueLexeme(tok) == tok.t # "punct"

\* JSON.parse over one level of array nesting: a lone value, or a bracketed
\* comma-separated list of values; anything else is a SyntaxError.
JSONparse(text) ==
    LET n == Len(text) IN
    IF n = 1 /\ IsValueLexeme(text[1]) THEN Ret(text[1])
    ELSE IF n >= 2 /\ IsPunct(text[1], "[") /\ IsPunct(text[n], "]") THEN
        LET inner == SubSeq(text, 2, n - 1) IN
        IF inner = <<>> THEN Ret(Arr(<<>>))
        ELSE IF /\ Len(inner) % 2 = 1
                /\ \A i \in 1..Len(inner) :
                      IF i % 2 = 1 THEN IsValueLexeme(inner[i])
                      ELSE IsPunct(inner[i], ",")
             THEN Ret(Arr([k \in 1..((Len(inner) + 1) \div 2) |-> inner[2 * k - 1]]))
             ELSE Throw
    ELSE Throw

\* JSON.stringify of an array of values, as the indexer writes a list body.
RECURSIVE Separated(_)
Separated(q) ==
    IF q = <<>> THEN <<>>
    ELSE IF Len(q) = 1 THEN <<q[1]>>
    ELSE <<q[1], Comma>> \o Separated(Tail(q))

JSONstringify(q) == <<LBracket>> \o Separated(q) \o <<RBracket>>

--------------------------------------------------------------------------
(* fetchJson and fetchCount *)

\* The try block of fetchJson: await fetch, res.ok, await res.text(),
\* the empty-body test, JSON.parse.
fetchJsonTry(resp) ==
    IF resp.net = "fail" THEN Throw
    ELSE IF ~resp.ok THEN Ret(Null)
    ELSE IF ~resp.read THEN Throw
    ELSE IF resp.text = <<>> THEN Ret(Null)
    ELSE JSONparse(resp.text)

\* A variant without the catch clause.
fetchJsonNoCatch(resp) == fetchJsonTry(resp)

\* fetchJson: the try block, and catch { return null }.
fetchJson(resp) ==
    LET r == fetchJsonTry(resp) IN
    IF r.t = "throw" THEN Ret(Null) ELSE r

\* The try block of fetchCount: text ? parseInt(text, 10) || 0 : 0.
fetchCountTry(resp) ==
    IF resp.net = "fail" THEN Throw
    ELSE IF ~resp.ok THEN Ret(0)
    ELSE IF ~resp.read THEN Throw
    ELSE IF resp.text = <<>> THEN Ret(0)
    ELSE LET n == parseInt(resp.text) IN
         IF Truthy(n) THEN Ret(n.v) ELSE Ret(0)

\* A variant without the catch clause.
fetchCountNoCatch(resp) == fetchCountTry(resp)

\* fetchCount: the try block, and catch { return 0 }.
fetchCount(resp) ==
    LET r == fetchCountTry(resp) IN
    IF r.t = "throw" THEN Ret(0) ELSE r

--------------------------------------------------------------------------
(* The dashboard's state after construction (the useState initial values) *)

NoCycle == [t |-> "none"]

DashInit ==
    /\ stats = Null
    /\ activity = <<>>
    /\ growthData = <<>>
    /\ topHolders = <<>>
    /\ extensions = <<>>
    /\ loading = TRUE
    /\ refreshing = FALSE
    /\ lastUpdated = Null
    /\ inflight = {}
    /\ started = 0
    /\ settled = 0
    /\ last = NoCycle

SeqUpTo(S, n) == UNION {[1..k -> S] : k \in 0..n}

--------------------------------------------------------------------------
(* fetchCount and fetchJson over every outcome of the HTTP request *)

CountTexts == SeqUpTo(Chars, MaxBody)
JsonLexemes == {LBracket, RBracket, Comma, Null, Num(7)}
JsonTexts == SeqUpTo(JsonLexemes, MaxBody + 2)

Responses(texts) ==
    {NetFail} \cup {Resp(ok, read, text) : ok \in BOOLEAN, read \in BOOLEAN, text \in texts}

InitFetch ==
    /\ DashInit
    /\ call \in {[fn |-> "fetchCount", resp |-> r] : r \in Responses(CountTexts)}
          \cup {[fn |-> "fetchJson", resp |-> r] : r \in Responses(JsonTexts)}
    /\ ret = Pending

FetchCountSettles ==
    /\ call.fn = "fetchCount"
    /\ ret = Pending
    /\ ret' = fetchCount(call.resp)
    /\ UNCHANGED <<dashVars, call>>

FetchJsonSettles ==
    /\ call.fn = "fetchJson"
    /\ ret = Pending
    /\ ret' = fetchJson(call.resp)
    /\ UNCHANGED <<dashVars, call>>

NextFetch == FetchCountSettles \/ FetchJsonSettles

SpecFetch == InitFetch /\ [][NextFetch]_vars

\* The decimal writing of a non-negative integer; a digit outside Digits is
\* written "#", which no examined body contains.
DigitChar(d) == CASE d = 0 -> "0" [] d = 1 -> "1" [] d = 7 -> "7" [] OTHER -> "#"

RECURSIVE Decimal(_)
Decimal(n) == IF n < 10 THEN <<DigitChar(n)>> ELSE Decimal(n \div 10) \o <<DigitChar(n % 10)>>

HasDigit(text) == \E i \in 1..Len(text) : text[i] \in Digits

\* The request failed before a body could be parsed.
RequestFailed(resp) == resp.net = "fail" \/ ~resp.ok \/ ~resp.read \/ resp.text = <<>>

\* C2: fetchCount and fetchJson never raise.  Whatever the request did
\* (network failure, non-success status, failed or empty body, body that
\* does not parse) fetchCount returns 0 and fetchJson returns null; a body
\* that is the decimal writing of n makes fetchCount return n, and a body
\* that is the serialisation of a list makes fetchJson return that list.
C2_FetchNeverRaises ==
    /\ (call.fn = "fetchCount" /\ ret # Pending) =>
          /\ ret.t = "ret"
          /\ RequestFailed(call.resp) => ret.v = 0
          /\ (~RequestFailed(call.resp) /\ parseInt(call.resp.text) = NaN) => ret.v = 0
          /\ (~RequestFailed(call.resp) /\ ~HasDigit(call.resp.text)) => ret.v = 0
          /\ \A n \in 0..MaxWritten :
                (~RequestFailed(call.resp) /\ call.resp.text = Decimal(n)) => ret.v = n
    /\ (call.fn = "fetchJson" /\ ret # Pending) =>
          /\ ret.t = "ret"
          /\ RequestFailed(call.resp) => ret.v = Null
          /\ (~RequestFailed(call.resp) /\ JSONparse(call.resp.text).t = "throw") => ret.v = Null
          /\ \A q \in SeqUpTo({Null, Num(7)}, 2) :
                (~RequestFailed(call.resp) /\ call.resp.text = JSONstringify(q)) => ret.v = Arr(q)

\* C2 witness: a success status with a truncated list body, answered by null.
C2_Witness ==
    /\ call.fn = "fetchJson"
    /\ call.resp = Resp(TRUE, TRUE, <<LBracket, Null, Comma>>)
    /\ ret = Ret(Null)

--------------------------------------------------------------------------
(* tezosService.getStats *)

\* Math.round(num / den) for den > 0: the nearest integer, a tie going up.
MathRound(num, den) == (2 * num + den) \div (2 * den)

\* The percentage that pct yields when prev = 0 and curr > 0.
FullChange == 100

\* pct(curr, prev).  A change is held in tenths of a percent, so that
\* Math.round(x * 1000) / 10 is the number Math.round(x * 1000) of tenths:
\* Num(250) is 25.0 and Num(10 * FullChange) is 100.
pctTruncated(curr, prev) ==
    IF prev = 0 THEN (IF curr > 0 THEN Num(10 * FullChange) ELSE Null)
    ELSE Num(((curr - prev) * 1000) \div prev)

pct(curr, prev) ==
    IF prev = 0 THEN (IF curr > 0 THEN Num(10 * FullChange) ELSE Null)
    ELSE Num(MathRound((curr - prev) * 1000, prev))

\* getStats after its six counts have arrived: counts is <<totalBuys,
\* buysLast24h, buysPrev24h, renewsLast24h, renewsPrev24h, uniqueSenders>>.
StatsOf(counts) ==
    [ totalDomains |-> counts[1],
      new24h |-> counts[2],
      renewals24h |-> counts[4],
      activeUsers |-> IF counts[6] # 0 THEN counts[6] ELSE 0,
      totalDomainsChange |-> Null,
      new24hChange |-> pct(counts[2], counts[3]),
      renewalsChange |-> pct(counts[4], counts[5]),
      activeUsersChange |-> Null ]

\* getStats: Promise.all over six fetchCount calls, then the snapshot.
\* resps is the six HTTP outcomes in the order of the calls.
getStats(resps) ==
    LET rs == [i \in 1..6 |-> fetchCount(resps[i])] IN
    IF \E i \in 1..6 : rs[i].t = "throw" THEN Throw
    ELSE Ret(StatsOf([i \in 1..6 |-> rs[i].v]))

StatsCounts ==
    {<<t, c, p, rc, rp, u>> :
        t \in {0, MaxCount}, c \in 0..MaxCount, p \in 0..MaxCount,
        rc \in {0, MaxCount}, rp \in {0, 4}, u \in {0, MaxCount}}

InitStats ==
    /\ DashInit
    /\ call \in {[fn |-> "getStats", counts |-> k] : k \in StatsCounts}
    /\ ret = Pending

GetStatsSettles ==
    /\ call.fn = "getStats"
    /\ ret = Pending
    /\ ret' = Ret(StatsOf(call.counts))
    /\ UNCHANGED <<dashVars, call>>

NextStats == GetStatsSettles

SpecStats == InitStats /\ [][NextStats]_vars

\* r is the number of tenths nearest to 1000 * (c - p) / p, a tie going up.
NearestTenth(r, c, p) ==
    /\ 2 * r * p - p <= 2000 * (c - p)
    /\ 2000 * (c - p) < 2 * r * p + p

\* The change r that the reference gives for c against the baseline p.
PctAsSpecified(r, c, p) ==
    /\ (p = 0 /\ c = 0) => r = Null
    /\ (p = 0 /\ c > 0) => r = Num(1000)
    /\ p > 0 => (r.t = "num" /\ NearestTenth(r.v, c, p))
    /\ (c = 5 /\ p = 4) => r = Num(250)

\* C3: pct(c, p) is null when p = 0 and c = 0, 100 when p = 0 and c > 0, and
\* otherwise (c - p) / p as a percentage rounded to one decimal place; 5
\* against 4 gives 25.0.  It is what getStats reports as new24hChange and
\* renewalsChange.
C3_PctReference ==
    (call.fn = "getStats" /\ ret # Pending) =>
        /\ PctAsSpecified(ret.v.new24hChange, call.counts[2], call.counts[3])
        /\ PctAsSpecified(ret.v.renewalsChange, call.counts[4], call.counts[5])

\* C3 witness: 1 against 16 is -93.75 percent, a tie at the first decimal
\* place that Math.round takes up to -93.7.
C3_Witness ==
    /\ call.fn = "getStats"
    /\ call.counts[2] = 1
    /\ call.counts[3] = 16
    /\ ret # Pending
    /\ ret.v.new24hChange = Num(0 - 937)

--------------------------------------------------------------------------
(* Array helpers *)

\* q.slice(0, n)
sliceNothing(q, n) == q

slice(q, n) == IF Len(q) <= n THEN q ELSE SubSeq(q, 1, n)

\* A variant that places an entry ahead of the entries of equal key.
RECURSIVE InsertDescUnstable(_, _)
InsertDescUnstable(sorted, e) ==
    IF sorted = <<>> THEN <<e>>
    ELSE IF Head(sorted).key > e.key
         THEN <<Head(sorted)>> \o InsertDescUnstable(Tail(sorted), e)
         ELSE <<e>> \o sorted

\* Array.prototype.sort with a comparator (a, b) => key(b) - key(a), over
\* entries [key, item]: descending by key, and stable (ECMAScript 2019), so
\* entries with equal keys keep their order.
RECURSIVE InsertDesc(_, _)
InsertDesc(sorted, e) ==
    IF sorted = <<>> THEN <<e>>
    ELSE IF Head(sorted).key >= e.key
         THEN <<Head(sorted)>> \o InsertDesc(Tail(sorted), e)
         ELSE <<e>> \o sorted

RECURSIVE InsertionSortDesc(_)
InsertionSortDesc(q) ==
    IF q = <<>> THEN <<>>
    ELSE InsertDesc(InsertionSortDesc(SubSeq(q, 1, Len(q) - 1)), q[Len(q)])

sortDescUnsorted(q) == q

sortDesc(q) == InsertionSortDesc(q)

--------------------------------------------------------------------------
(* tezosService.getTopHolders *)

TopK == 10

\* An element of a fetched array is an operation object or JSON null;
\* reading a property of null raises a TypeError.
IsNullish(x) == x.t = "null" \/ x.t = "undef"

\* x?.address
OptAddress(x) ==
    IF x.t = "obj" THEN x.address ELSE Undefined

\* op.sender?.address || op.sender
SenderOf(op) ==
    LET a == OptAddress(op.sender) IN
    IF Truthy(a) THEN a ELSE op.sender

\* counts[addr] = (counts[addr] || 0) + 1, on a record kept as the sequence
\* of its [address, count] entries in insertion order (Object.entries).
RECURSIVE BumpOnce(_, _)
BumpOnce(counts, addr) ==
    IF counts = <<>> THEN <<[address |-> addr, count |-> 1]>>
    ELSE IF Head(counts).address = addr
         THEN counts
         ELSE <<Head(counts)>> \o BumpOnce(Tail(counts), addr)

RECURSIVE Bump(_, _)
Bump(counts, addr) ==
    IF counts = <<>> THEN <<[address |-> addr, count |-> 1]>>
    ELSE IF Head(counts).address = addr
         THEN <<[address |-> addr, count |-> Head(counts).count + 1]>> \o Tail(counts)
         ELSE <<Head(counts)>> \o Bump(Tail(counts), addr)

RECURSIVE TallySenders(_, _)
TallySenders(ops, counts) ==
    IF ops = <<>> THEN counts
    ELSE LET addr == SenderOf(Head(ops)) IN
         TallySenders(Tail(ops),
                      IF Truthy(addr) /\ addr.t = "str" THEN Bump(counts, addr.v) ELSE counts)

\* getTopHolders after its fetch: fetched is what fetchJson returned.
TopHoldersOf(fetched) ==
    IF ~IsArray(fetched) \/ Len(fetched.v) = 0 THEN Ret(<<>>)
    ELSE IF \E i \in 1..Len(fetched.v) : IsNullish(fetched.v[i]) THEN Throw
    ELSE LET counts == TallySenders(fetched.v, <<>>)
             keyed == [i \in 1..Len(counts) |-> [key |-> counts[i].count, item |-> counts[i]]]
             top == slice(sortDesc(keyed), TopK)
         IN  Ret([i \in 1..Len(top) |-> top[i].item])

\* getTopHolders: the fetch, then the ranking.
getTopHolders(resp) ==
    LET f == fetchJson(resp) IN
    IF f.t = "throw" THEN Throw ELSE TopHoldersOf(f.v)

\* Operations as the sender query returns them.
OpFrom(a) == [t |-> "obj", sender |-> [t |-> "obj", address |-> Str(a)]]
OpBareSender(a) == [t |-> "obj", sender |-> Str(a)]
OpNoSender == [t |-> "obj", sender |-> Undefined]
OpNoAddress == [t |-> "obj", sender |-> [t |-> "obj", address |-> Undefined]]
OpNumericAddress == [t |-> "obj", sender |-> [t |-> "obj", address |-> Num(7)]]

Repeat(x, n) == [i \in 1..n |-> x]

\* Nine holders, two of them with two acquisitions.
Crowd ==
    <<OpFrom("tz1A"), OpFrom("tz1B"), OpFrom("tz1C"), OpFrom("tz1D"), OpFrom("tz1E"),
      OpFrom("tz1F"), OpFrom("tz1G"), OpFrom("tz1H"), OpFrom("tz1I"), OpFrom("tz1I"),
      OpFrom("tz1C")>>

\* Nine acquisitions by Y, fetched before twelve by X.
TwoHolders == Repeat(OpFrom("tz1Y"), 9) \o Repeat(OpFrom("tz1X"), 12)

Addresses ==
    {"tz1A", "tz1B", "tz1C", "tz1D", "tz1E", "tz1F", "tz1G", "tz1H", "tz1I",
     "tz1J", "tz1K", "tz1L", "tz1X", "tz1Y"}

HolderTailOps ==
    {OpFrom("tz1A"), OpFrom("tz1J"), OpFrom("tz1K"), OpFrom("tz1L"), OpBareSender("tz1K"),
     OpNoSender, OpNoAddress, OpNumericAddress, Null}

HolderLists ==
    {base \o tail : base \in {<<>>, Crowd, TwoHolders}, tail \in SeqUpTo(HolderTailOps, MaxTail)}

\* What fetchJson can hand to an aggregator: null, a value that is no
\* array, or an array.
NotAnArray == [t |-> "obj", sender |-> Undefined]

InitHolders ==
    /\ DashInit
    /\ call \in {[fn |-> "getTopHolders", fetched |-> f] :
                    f \in {Null, NotAnArray} \cup {Arr(q) : q \in HolderLists}}
    /\ ret = Pending

GetTopHoldersSettles ==
    /\ call.fn = "getTopHolders"
    /\ ret = Pending
    /\ ret' = TopHoldersOf(call.fetched)
    /\ UNCHANGED <<dashVars, call>>

NextHolders == GetTopHoldersSettles

SpecHolders == InitHolders /\ [][NextHolders]_vars

HoldersReturned == call.fn = "getTopHolders" /\ ret.t = "ret"

\* C6: getTopHolders returns at most 10 entries, no address twice, with
\* counts that never increase from one entry to the next.
C6_TopHoldersShape ==
    HoldersReturned =>
        /\ Len(ret.v) <= 10
        /\ \A i, j \in 1..Len(ret.v) : i # j => ret.v[i].address # ret.v[j].address
        /\ \A i \in 1..(Len(ret.v) - 1) : ret.v[i].count >= ret.v[i + 1].count

\* C6 witness: twelve distinct senders were fetched and ten are returned.
C6_Witness ==
    /\ HoldersReturned
    /\ call.fetched = Arr(Crowd \o <<OpFrom("tz1J"), OpFrom("tz1K"), OpFrom("tz1L")>>)
    /\ Len(ret.v) = 10

\* The number of fetched operations whose sender is address a: the sender
\* is the string sender.address, or the sender itself when it is a string.
SentBy(op, a) ==
    /\ op.t = "obj"
    /\ \/ op.sender = Str(a)
       \/ op.sender.t = "obj" /\ op.sender.address = Str(a)

TallyOf(ops, a) == Cardinality({i \in 1..Len(ops) : SentBy(ops[i], a)})

FetchedOps == IF IsArray(call.fetched) THEN call.fetched.v ELSE <<>>

Returned(a) == \E i \in 1..Len(ret.v) : ret.v[i].address = a

\* C7: getTopHolders is the top 10 of the sender tally.  Each entry's count
\* is the number of fetched operations sent by its address; an address left
\* out has no larger tally than any address returned, and is left out only
\* when it sent nothing or ten are returned; 12 operations from X and 9 from
\* Y give X with 12, then Y with 9.
C7_TopHoldersTally ==
    HoldersReturned =>
        /\ \A i \in 1..Len(ret.v) :
              /\ ret.v[i].address \in Addresses
              /\ ret.v[i].count = TallyOf(FetchedOps, ret.v[i].address)
        /\ \A a \in Addresses :
              ~Returned(a) =>
                  /\ \A i \in 1..Len(ret.v) : TallyOf(FetchedOps, a) <= ret.v[i].count
                  /\ TallyOf(FetchedOps, a) = 0 \/ Len(ret.v) = 10
        /\ call.fetched = Arr(TwoHolders) =>
              ret.v = <<[address |-> "tz1X", count |-> 12], [address |-> "tz1Y", count |-> 9]>>

\* C7 witness: two late acquisitions lift the twelfth sender fetched, tz1L,
\* into the ten returned, ahead of senders fetched before it; one operation
\* without a sender is counted for nobody.
C7_Witness ==
    /\ HoldersReturned
    /\ call.fetched = Arr(Crowd \o <<OpFrom("tz1L"), OpNoSender, OpFrom("tz1L")>>)
    /\ Len(ret.v) = 10
    /\ ret.v[3] = [address |-> "tz1L", count |-> 2]

\* The position in the fetched list of the first operation sent by a.
FirstSentBy(a) ==
    CHOOSE i \in 1..Len(FetchedOps) :
        /\ SentBy(FetchedOps[i], a)
        /\ \A j \in 1..(i - 1) : ~SentBy(FetchedOps[j], a)

\* C17: addresses with equal tallies are returned in the order of their
\* first appearance in the fetched list, and of tied addresses the ones
\* that appear first are the ones kept at the cut to 10.
C17_TiesInFetchOrder ==
    HoldersReturned =>
        /\ \A i, j \in 1..Len(ret.v) :
              (i < j /\ ret.v[i].count = ret.v[j].count)
                  => FirstSentBy(ret.v[i].address) < FirstSentBy(ret.v[j].address)
        /\ \A a \in Addresses :
              (~Returned(a) /\ TallyOf(FetchedOps, a) > 0) =>
                  \A i \in 1..Len(ret.v) :
                      ret.v[i].count = TallyOf(FetchedOps, a)
                          => FirstSentBy(ret.v[i].address) < FirstSentBy(a)

\* C17 witness: twelve senders, two with two acquisitions and ten with one.
\* tz1C, met before tz1I, leads; of the ten tied at one, the eight met first
\* are returned and the two met last are cut.
C17_Witness ==
    /\ HoldersReturned
    /\ call.fetched = Arr(Crowd \o <<OpFrom("tz1J"), OpFrom("tz1K"), OpFrom("tz1L")>>)
    /\ [i \in 1..Len(ret.v) |-> ret.v[i].address] =
          <<"tz1C", "tz1I", "tz1A", "tz1B", "tz1D", "tz1E", "tz1F", "tz1G", "tz1H", "tz1J">>
    /\ ~Returned("tz1K")
    /\ ~Returned("tz1L")

--------------------------------------------------------------------------
(* hexToUtf8 *)

\* A string whose characters matter is held as the sequence of its
\* character codes: Text(<<55, 52>>) is "74".
Text(codes) == [t |-> "text", c |-> codes]

IsHexDigit(c) == (48 <= c /\ c <= 57) \/ (97 <= c /\ c <= 102) \/ (65 <= c /\ c <= 70)

HexDigitVal(c) ==
    IF c <= 57 THEN c - 48 ELSE IF c >= 97 THEN c - 87 ELSE c - 55

\* hex.match(/.{1,2}/g): the string cut into groups of two characters, the
\* last group of one when the length is odd.
RECURSIVE PairsOf(_)
PairsOf(codes) ==
    IF codes = <<>> THEN <<>>
    ELSE IF Len(codes) = 1 THEN <<codes>>
    ELSE <<SubSeq(codes, 1, 2)>> \o PairsOf(SubSeq(codes, 3, Len(codes)))

\* parseInt(byte, 16) on a group of at most two characters (the examined
\* strings hold no white space, sign or 0x prefix): the value of the
\* leading hex digits, NaN when the first character is no hex digit.
parseIntHex(pair) ==
    IF ~IsHexDigit(pair[1]) THEN NaN
    ELSE IF Len(pair) = 2 /\ IsHexDigit(pair[2])
         THEN Num(16 * HexDigitVal(pair[1]) + HexDigitVal(pair[2]))
         ELSE Num(HexDigitVal(pair[1]))

\* new Uint8Array(values): NaN is stored as 0.
ToUint8(x) == IF x.t = "num" THEN x.v % 256 ELSE 0

\* new TextDecoder().decode(bytes): UTF-8 with replacement, never raising.
\* One- and two-byte sequences are decoded; any other byte gives U+FFFD
\* (the examined strings yield no byte from 0xE0 up).
RECURSIVE Utf8Decode(_)
Utf8Decode(bytes) ==
    IF bytes = <<>> THEN <<>>
    ELSE IF bytes[1] < 128 THEN <<bytes[1]>> \o Utf8Decode(Tail(bytes))
    ELSE IF /\ 194 <= bytes[1] /\ bytes[1] <= 223
            /\ Len(bytes) >= 2 /\ 128 <= bytes[2] /\ bytes[2] <= 191
         THEN <<(bytes[1] - 192) * 64 + (bytes[2] - 128)>>
              \o Utf8Decode(SubSeq(bytes, 3, Len(bytes)))
    ELSE <<65533>> \o Utf8Decode(Tail(bytes))

\* The try block of hexToUtf8; hex.match raises when hex is no string.
hexToUtf8Try(hex) ==
    IF hex.t # "text" THEN Throw
    ELSE LET pairs == PairsOf(hex.c)
             bytes == [i \in 1..Len(pairs) |-> ToUint8(parseIntHex(pairs[i]))]
         IN  Ret(Text(Utf8Decode(bytes)))

\* hexToUtf8: the try block, and catch { return hex }.
hexToUtf8(hex) ==
    LET r == hexToUtf8Try(hex) IN
    IF r.t = "throw" THEN Ret(hex) ELSE r

\* /^[0-9a-f]+$/i.test(label)
IsHexString(codes) == codes # <<>> /\ \A i \in 1..Len(codes) : IsHexDigit(codes[i])

\* The examined strings: up to MaxHex characters among "4", "7", "a", "c"
\* and "z", the label "74657374", and a value that is no string.
HexAlphabet == {52, 55, 97, 99, 122}
TestLabel == <<55, 52, 54, 53, 55, 51, 55, 52>>
HexInputs ==
    {Text(q) : q \in SeqUpTo(HexAlphabet, MaxHex)} \cup {Text(TestLabel), Num(7)}

InitHex ==
    /\ DashInit
    /\ call \in {[fn |-> "hexToUtf8", hex |-> h] : h \in HexInputs}
    /\ ret = Pending

HexToUtf8Settles ==
    /\ call.fn = "hexToUtf8"
    /\ ret = Pending
    /\ ret' = hexToUtf8(call.hex)
    /\ UNCHANGED <<dashVars, call>>

NextHex == HexToUtf8Settles

SpecHex == InitHex /\ [][NextHex]_vars

--------------------------------------------------------------------------
(* tezosService.getRecentActivity *)

BuyLimit == 15
RenewLimit == 10
FeedLimit == 15

\* The ActivityItem of an operation: id `${type}-${op.id}` and the
\* operation's timestamp, here the instant new Date(timestamp).getTime()
\* that the sort compares.  (domain, address and amount are filled per item
\* and play no part in which items are returned or in their order.)
\* A parameter payload { value: v }, and a payload value { label: l }; a
\* payload value without a label field has label Undefined.
Param(value) == [t |-> "obj", value |-> value]
Labelled(label) == [t |-> "obj", label |-> label]

\* op.parameter?.value
ValueOf(op) == IF IsNullish(op.parameter) THEN Undefined ELSE op.parameter.value

\* op.parameter?.value?.label
LabelOf(op) ==
    LET value == ValueOf(op) IN
    IF IsNullish(value) THEN Undefined
    ELSE IF value.t = "obj" THEN value.label
    ELSE Undefined

RECURSIVE DecimalCodes(_)
DecimalCodes(n) ==
    IF n < 10 THEN <<48 + n>> ELSE DecimalCodes(n \div 10) \o <<48 + (n % 10)>>

\* "unknown", ".tez" and "[object Object]" as character codes.
UnknownName == <<117, 110, 107, 110, 111, 119, 110>>
TezSuffix == <<46, 116, 101, 122>>
ObjectObject == <<91, 111, 98, 106, 101, 99, 116, 32, 79, 98, 106, 101, 99, 116, 93>>

\* What a template literal writes for ${x}.
ToStringCodes(x) ==
    CASE x.t = "text" -> x.c
      [] x.t = "num" -> DecimalCodes(x.v)
      [] OTHER -> ObjectObject

\* domain of an acquisition:
\* label ? `${hexToUtf8(label)}.tez` : 'unknown.tez'
BuyDomain(op) ==
    LET label == LabelOf(op) IN
    IF Truthy(label) THEN ToStringCodes(hexToUtf8(label).v) \o TezSuffix
    ELSE UnknownName \o TezSuffix

\* The label of a renewal: op.parameter?.value?.label ?? op.parameter?.value
RenewLabelOf(op) == IF IsNullish(LabelOf(op)) THEN ValueOf(op) ELSE LabelOf(op)

\* domain of a renewal: the label decoded when it is a string of hex
\* digits, else the label itself, else 'unknown'; then the suffix.
RenewDomain(op) ==
    LET label == RenewLabelOf(op)
        name == IF label.t = "text" /\ IsHexString(label.c) THEN hexToUtf8(label).v
                ELSE IF Truthy(label) THEN label
                ELSE Text(UnknownName)
    IN  ToStringCodes(name) \o TezSuffix

DomainOf(type, op) == IF type = "buy" THEN BuyDomain(op) ELSE RenewDomain(op)

ItemOf(type, op) ==
    [id |-> <<type, op.id>>, type |-> type, domain |-> DomainOf(type, op),
     timestamp |-> op.timestamp]

ItemsOf(type, fetched) ==
    IF IsArray(fetched) THEN [i \in 1..Len(fetched.v) |-> ItemOf(type, fetched.v[i])]
    ELSE <<>>

HasNullish(fetched) ==
    IsArray(fetched) /\ \E i \in 1..Len(fetched.v) : IsNullish(fetched.v[i])

\* A variant that gives up when either source is missing.
RecentActivityAllOrNothing(buys, renews) ==
    IF HasNullish(buys) \/ HasNullish(renews) THEN Throw
    ELSE IF ~IsArray(buys) \/ ~IsArray(renews) THEN Ret(<<>>)
    ELSE LET items == ItemsOf("buy", buys) \o ItemsOf("renew", renews)
             keyed == [i \in 1..Len(items) |-> [key |-> items[i].timestamp, item |-> items[i]]]
             top == slice(sortDesc(keyed), FeedLimit)
         IN  Ret([i \in 1..Len(top) |-> top[i].item])

\* getRecentActivity after both fetches: buys and renews are what the two
\* fetchJson calls returned.
RecentActivityOf(buys, renews) ==
    IF HasNullish(buys) \/ HasNullish(renews) THEN Throw
    ELSE LET items == ItemsOf("buy", buys) \o ItemsOf("renew", renews)
             keyed == [i \in 1..Len(items) |-> [key |-> items[i].timestamp, item |-> items[i]]]
             top == slice(sortDesc(keyed), FeedLimit)
         IN  Ret([i \in 1..Len(top) |-> top[i].item])

\* getRecentActivity: Promise.all over the two fetches, then the merge.
getRecentActivity(respBuys, respRenews) ==
    LET b == fetchJson(respBuys)
        r == fetchJson(respRenews)
    IN  IF b.t = "throw" \/ r.t = "throw" THEN Throw ELSE RecentActivityOf(b.v, r.v)

\* The indexer's answer to ...&limit=n&sort.desc=id over the operations it
\* knows, given in ascending id order: the n with the largest ids, largest
\* first.
Reverse(q) == [i \in 1..Len(q) |-> q[Len(q) + 1 - i]]

MostRecent(known, n) == slice(Reverse(known), n)

\* The indexer's history: a timeline of acquisitions and renewals.  The
\* operation at position i has id i; perBlock operations share a timestamp.
Timeline(nb, nr, order) ==
    CASE order = "buysFirst" -> Repeat("buy", nb) \o Repeat("renew", nr)
      [] order = "renewsFirst" -> Repeat("renew", nr) \o Repeat("buy", nb)
      [] order = "alternate" ->
            [i \in 1..(nb + nr) |->
                IF i <= 2 * nb /\ i <= 2 * nr
                THEN (IF i % 2 = 1 THEN "buy" ELSE "renew")
                ELSE (IF nb > nr THEN "buy" ELSE "renew")]

RECURSIVE Select(_, _, _, _)
Select(kinds, kind, perBlock, i) ==
    IF i > Len(kinds) THEN <<>>
    ELSE (IF kinds[i] = kind
          THEN <<[t |-> "obj", id |-> i, timestamp |-> (i + perBlock - 1) \div perBlock,
                  parameter |-> Param(Labelled(Text(TestLabel)))]>>
          ELSE <<>>) \o Select(kinds, kind, perBlock, i + 1)

Histories ==
    {[buys |-> Select(Timeline(nb, nr, order), "buy", perBlock, 1),
      renews |-> Select(Timeline(nb, nr, order), "renew", perBlock, 1)] :
        nb \in 0..MaxBuys, nr \in 0..MaxRenews,
        order \in {"buysFirst", "renewsFirst", "alternate"}, perBlock \in 1..2}

\* What one list query yields: the indexer's answer, or null when the
\* request failed, or a value that is no array.
Fetched(outcome, known, limit) ==
    CASE outcome = "ok" -> Arr(MostRecent(known, limit))
      [] outcome = "null" -> Null
      [] outcome = "notArray" -> NotAnArray

ListOutcomes == {"ok", "null", "notArray"}

InitActivity ==
    /\ DashInit
    /\ call \in {[fn |-> "getRecentActivity", known |-> h,
                  buys |-> Fetched(ob, h.buys, BuyLimit),
                  renews |-> Fetched(orr, h.renews, RenewLimit)] :
                    h \in Histories, ob \in ListOutcomes, orr \in ListOutcomes}
    /\ ret = Pending

GetRecentActivitySettles ==
    /\ call.fn = "getRecentActivity"
    /\ ret = Pending
    /\ ret' = RecentActivityOf(call.buys, call.renews)
    /\ UNCHANGED <<dashVars, call>>

NextActivity == GetRecentActivitySettles

SpecActivity == InitActivity /\ [][NextActivity]_vars

ActivityReturned == call.fn = "getRecentActivity" /\ ret.t = "ret"

\* C8: getRecentActivity returns at most 15 entries, with timestamps that
\* never increase from one entry to the next.
C8_ActivityShape ==
    ActivityReturned =>
        /\ Len(ret.v) <= 15
        /\ \A i \in 1..(Len(ret.v) - 1) : ret.v[i].timestamp >= ret.v[i + 1].timestamp

\* C8 witness: 15 acquisitions and 10 renewals were fetched, interleaved in
\* time, and 15 entries are returned.
C8_Witness ==
    /\ ActivityReturned
    /\ IsArray(call.buys) /\ Len(call.buys.v) = 15
    /\ IsArray(call.renews) /\ Len(call.renews.v) = 10
    /\ call.buys.v[15].timestamp < call.renews.v[1].timestamp
    /\ call.renews.v[10].timestamp < call.buys.v[1].timestamp
    /\ Len(ret.v) = 15

InFeed(type, op) == \E i \in 1..Len(ret.v) : ret.v[i].id = <<type, op.id>>

\* C9 as claimed: when both queries are answered, no operation the indexer
\* knows that is absent from the feed is more recent than an entry of it.
C9_FeedIsMostRecent ==
    (ActivityReturned /\ IsArray(call.buys) /\ IsArray(call.renews)) =>
        /\ \A k \in 1..Len(call.known.buys) :
              ~InFeed("buy", call.known.buys[k]) =>
                  \A i \in 1..Len(ret.v) :
                      call.known.buys[k].timestamp <= ret.v[i].timestamp
        /\ \A k \in 1..Len(call.known.renews) :
              ~InFeed("renew", call.known.renews[k]) =>
                  \A i \in 1..Len(ret.v) :
                      call.known.renews[k].timestamp <= ret.v[i].timestamp

IdsOf(type, fetched) == {<<type, fetched.v[i].id>> : i \in 1..Len(fetched.v)}

FeedIds == {ret.v[i].id : i \in 1..Len(ret.v)}

\* C10: when exactly one of the two queries yields null, the call still
\* returns, and the feed is exactly the events of the other source, most
\* recent first, none of them from the failed source.
C10_OneSourceFails ==
    (call.fn = "getRecentActivity" /\ ret # Pending) =>
        /\ (call.buys = Null /\ IsArray(call.renews)) =>
              /\ ret.t = "ret"
              /\ FeedIds = IdsOf("renew", call.renews)
              /\ Len(ret.v) = Len(call.renews.v)
              /\ \A i \in 1..(Len(ret.v) - 1) : ret.v[i].timestamp >= ret.v[i + 1].timestamp
        /\ (call.renews = Null /\ IsArray(call.buys)) =>
              /\ ret.t = "ret"
              /\ FeedIds = IdsOf("buy", call.buys)
              /\ Len(ret.v) = Len(call.buys.v)
              /\ \A i \in 1..(Len(ret.v) - 1) : ret.v[i].timestamp >= ret.v[i + 1].timestamp

\* C10 witness: the acquisitions query failed, ten renewals were fetched and
\* ten renewals are returned.
C10_Witness ==
    /\ ActivityReturned
    /\ call.buys = Null
    /\ Len(call.known.buys) > 0
    /\ IsArray(call.renews) /\ Len(call.renews.v) = 10
    /\ Len(ret.v) = 10
    /\ \A i \in 1..10 : ret.v[i].type = "renew"

--------------------------------------------------------------------------
(* The domain name of an activity item *)

\* The labels examined: strings of up to MaxLabel characters among "7",
\* "4" and "z", the label "74657374", a number, and no label.
LabelAlphabet == {55, 52, 122}
Labels ==
    {Text(q) : q \in SeqUpTo(LabelAlphabet, MaxLabel)}
    \cup {Text(TestLabel), Num(7), Undefined, Null}

\* The payload shapes examined: no parameter, a parameter without a value,
\* a value holding the label, and a bare value.
Parameters ==
    {Undefined, Param(Undefined)}
    \cup {Param(Labelled(l)) : l \in Labels}
    \cup {Param(l) : l \in Labels \ {Undefined}}

LabelOp(i, parameter) ==
    [t |-> "obj", id |-> i, timestamp |-> i, parameter |-> parameter]

\* One acquisition and one renewal, each with a payload of its own.
InitDomain ==
    /\ DashInit
    /\ call \in {[fn |-> "getRecentActivity",
                  known |-> [buys |-> <<LabelOp(1, pb)>>, renews |-> <<LabelOp(2, pr)>>],
                  buys |-> Arr(<<LabelOp(1, pb)>>),
                  renews |-> Arr(<<LabelOp(2, pr)>>)] :
                    pb \in Parameters, pr \in Parameters}
    /\ ret = Pending

SpecDomain == InitDomain /\ [][NextActivity]_vars

\* The operation an item was made from, and the label the code reads in it.
SourceOf(item) ==
    IF item.type = "buy" THEN call.known.buys[item.id[2]]
    ELSE call.known.renews[item.id[2] - 1]

ReadLabel(item) ==
    IF item.type = "buy" THEN LabelOf(SourceOf(item)) ELSE RenewLabelOf(SourceOf(item))

NotHex(label) == label.t = "text" /\ ~IsHexString(label.c)

\* C12 as claimed: every item of the feed has a non-empty domain; the
\* domain is "unknown.tez" whenever the operation's label is absent or is
\* no hex string, for acquisitions and renewals alike; the label
\* "74657374" gives "test.tez".
C12_DomainSentinel ==
    ActivityReturned =>
        \A i \in 1..Len(ret.v) :
            LET item == ret.v[i]
                label == ReadLabel(item)
            IN  /\ item.domain # <<>>
                /\ (IsNullish(label) \/ NotHex(label))
                      => item.domain = UnknownName \o TezSuffix
                /\ label = Text(TestLabel)
                      => item.domain = <<116, 101, 115, 116>> \o TezSuffix

--------------------------------------------------------------------------
(* tezosService.getGrowthData *)

\* Time is counted in hours since an epoch, in UTC; a calendar date is a
\* day number, hours \div 24.  A time zone has one offset before and one
\* after a transition instant (equal for a zone without daylight saving).
WindowDays == 30

Zone(before, after, at) == [before |-> before, after |-> after, at |-> at]

\* The zone's offset from UTC at an instant.
OffsetAt(tz, utc) == IF utc < tz.at THEN tz.before ELSE tz.after

\* The instant a local wall-clock time denotes (ECMAScript UTC(t)): a time
\* that is repeated or skipped at the transition is read with the offset in
\* force before the transition.
UtcOfLocal(tz, local) ==
    IF local - tz.before < tz.at THEN local - tz.before
    ELSE IF local - tz.after >= tz.at THEN local - tz.after
    ELSE local - tz.before

\* d = new Date(now); d.setDate(d.getDate() - i): the same wall-clock time
\* i local calendar days earlier.
DaysBefore(tz, now, i) ==
    LET local == now + OffsetAt(tz, now) IN
    UtcOfLocal(tz, ((local \div 24) - i) * 24 + (local % 24))

\* d.toISOString().slice(0, 10): the UTC date of an instant.
IsoDate(utc) == utc \div 24

\* The keys of the pre-filled buckets, one per i from 30 down to 0.
BucketKeys(tz, now) == {IsoDate(DaysBefore(tz, now, i)) : i \in 0..WindowDays}

\* new Date(date).toLocaleDateString(...): the local date of the UTC
\* midnight that the key denotes.
DateLabel(tz, key) == (key * 24 + OffsetAt(tz, key * 24)) \div 24

\* op.timestamp?.slice(0, 10)
DayOf(op) == IF op.timestamp.t = "num" THEN Num(IsoDate(op.timestamp.v)) ELSE Undefined

\* op.amount || 0, in millionths
AmountOf(op) == IF Truthy(op.amount) THEN op.amount.v ELSE 0

InBucket(op, key) == DayOf(op) = Num(key)

RECURSIVE SumAmounts(_, _)
SumAmounts(ops, key) ==
    IF ops = <<>> THEN 0
    ELSE (IF InBucket(Head(ops), key) THEN AmountOf(Head(ops)) ELSE 0)
         + SumAmounts(Tail(ops), key)

CountIn(ops, key) == Cardinality({i \in 1..Len(ops) : InBucket(ops[i], key)})

\* Object.entries(buckets).sort(([a], [b]) => a.localeCompare(b)): the keys
\* in ascending order.
RECURSIVE Ascending(_)
Ascending(keys) ==
    IF keys = {} THEN <<>>
    ELSE LET m == CHOOSE k \in keys : \A j \in keys : k <= j IN
         <<m>> \o Ascending(keys \ {m})

\* The bucketing of a non-empty fetched array.  Each entry carries the label
\* the caller sees (date), the count, the volume in hundredths
\* (Math.round(volume * 100) / 100), and the key of its bucket (day).
Bucketed(ops, now, tz) ==
    IF \E i \in 1..Len(ops) : IsNullish(ops[i]) THEN Throw
    ELSE LET keys == Ascending(BucketKeys(tz, now)) IN
         Ret([i \in 1..Len(keys) |->
                [ day |-> keys[i],
                  date |-> DateLabel(tz, keys[i]),
                  count |-> CountIn(ops, keys[i]),
                  volume |-> MathRound(SumAmounts(ops, keys[i]), 10000) ]])

\* A variant without the early return on an empty array.
GrowthDataZeroFilled(fetched, now, tz) ==
    IF ~IsArray(fetched) THEN Ret(<<>>)
    ELSE Bucketed(fetched.v, now, tz)

\* getGrowthData after the fetch: fetched is what fetchJson returned, now is
\* new Date() and tz the time zone of the browser.
GrowthDataOf(fetched, now, tz) ==
    IF ~IsArray(fetched) \/ Len(fetched.v) = 0 THEN Ret(<<>>)
    ELSE Bucketed(fetched.v, now, tz)

\* getGrowthData: the fetch, then the bucketing.
getGrowthData(resp, now, tz) ==
    LET f == fetchJson(resp) IN
    IF f.t = "throw" THEN Throw ELSE GrowthDataOf(f.v, now, tz)

\* The examined clocks: every hour of one day, in zones without and with a
\* daylight-saving transition ten days earlier.
Midnight == 100 * 24
Transition == Midnight - 240 + 7

Zones ==
    { Zone(0, 0, Transition), Zone(5, 5, Transition), Zone(0 - 8, 0 - 8, Transition),
      Zone(0 - 5, 0 - 4, Transition), Zone(0 - 4, 0 - 5, Transition),
      Zone(1, 2, Transition), Zone(0 - 1, 0, Transition) }

Clocks == {Midnight + h : h \in 0..23}

GrowthOp(ts, amount) == [t |-> "obj", timestamp |-> ts, amount |-> amount]

GrowthOpsAt(now) ==
    { GrowthOp(Num(now), Num(1500000)),
      GrowthOp(Num(now - WindowDays * 24), Undefined),
      GrowthOp(Num(now - 240), Num(5000)),
      GrowthOp(Undefined, Num(5000)) }

InitGrowth ==
    /\ DashInit
    /\ call \in {[fn |-> "getGrowthData", fetched |-> f, now |-> now, tz |-> tz] :
                    now \in Clocks, tz \in Zones,
                    f \in {Null, NotAnArray}}
          \cup UNION {{[fn |-> "getGrowthData", fetched |-> Arr(q), now |-> now, tz |-> tz] :
                          q \in SeqUpTo(GrowthOpsAt(now), MaxGrowthOps), tz \in Zones} :
                      now \in Clocks}
    /\ ret = Pending

GetGrowthDataSettles ==
    /\ call.fn = "getGrowthData"
    /\ ret = Pending
    /\ ret' = GrowthDataOf(call.fetched, call.now, call.tz)
    /\ UNCHANGED <<dashVars, call>>

NextGrowth == GetGrowthDataSettles

SpecGrowth == InitGrowth /\ [][NextGrowth]_vars

GrowthReturned == call.fn = "getGrowthData" /\ ret.t = "ret"

\* C4 as claimed: over a non-empty fetched array getGrowthData returns 31
\* buckets, one for each calendar date from 30 days ago through today, in
\* ascending order, whatever the time and the time zone.
C4_ThirtyOneBuckets ==
    (GrowthReturned /\ IsArray(call.fetched) /\ Len(call.fetched.v) > 0) =>
        /\ Len(ret.v) = 31
        /\ \A i \in 1..Len(ret.v) : ret.v[i].day = IsoDate(call.now) - 31 + i

\* C5: getGrowthData returns the empty sequence when the fetch yields null,
\* a value that is no array, or an empty array.
C5_EmptyWhenNothingFetched ==
    (call.fn = "getGrowthData" /\ ret # Pending) =>
        ((call.fetched = Null \/ call.fetched = NotAnArray \/ call.fetched = Arr(<<>>))
            => ret = Ret(<<>>))

\* C5 witness: the fetch yielded an empty array and nothing is returned.
C5_Witness ==
    /\ call.fn = "getGrowthData"
    /\ call.fetched = Arr(<<>>)
    /\ ret = Ret(<<>>)

RECURSIVE SumCounts(_)
SumCounts(buckets) ==
    IF buckets = <<>> THEN 0 ELSE Head(buckets).count + SumCounts(Tail(buckets))

\* Every fetched operation carries a timestamp the query admits: at or
\* after now minus 30 x 24 hours.
AllInWindow ==
    /\ IsArray(call.fetched)
    /\ Len(call.fetched.v) > 0
    /\ \A i \in 1..Len(call.fetched.v) :
          /\ call.fetched.v[i].timestamp.t = "num"
          /\ call.fetched.v[i].timestamp.v >= call.now - WindowDays * 24

\* C15 as claimed: every fetched operation is accumulated into exactly one
\* bucket, that of its timestamp's date; each bucket's count is the number
\* of fetched operations of its date, and the counts sum to the number of
\* fetched operations.
C15_EveryOpBucketed ==
    (GrowthReturned /\ AllInWindow) =>
        LET ops == call.fetched.v IN
        /\ \A i \in 1..Len(ops) :
              Cardinality({j \in 1..Len(ret.v) :
                              ret.v[j].day = IsoDate(ops[i].timestamp.v)}) = 1
        /\ \A j \in 1..Len(ret.v) :
              ret.v[j].count =
                  Cardinality({i \in 1..Len(ops) :
                                  IsoDate(ops[i].timestamp.v) = ret.v[j].day})
        /\ SumCounts(ret.v) = Len(ops)

--------------------------------------------------------------------------
(* tezosService.getStats: the windows of its queries *)

\* Time is counted in milliseconds here, as Date.now() counts it.
Hour == 3600000

\* isoAgo(hours) when Date.now() reads clock.  toISOString writes the
\* instant to the millisecond and the indexer reads it back, so the
\* instant is held as its millisecond count.
isoAgo(clock, hours) == clock - hours * Hour

NoBound == 0 - 1

\* A count query: the entrypoint, timestamp.ge and timestamp.lt (NoBound
\* when the URL has no such filter).
Query(kind, ge, lt) == [kind |-> kind, ge |-> ge, lt |-> lt]

\* A variant whose baseline window ends at a boundary computed from the
\* second reading of the clock.
StatsQueriesTwoClocks(t1, t2) ==
    LET now24 == isoAgo(t1, 24)
        now48 == isoAgo(t2, 48)
    IN  << Query("buy", NoBound, NoBound),
           Query("buy", now24, NoBound),
           Query("buy", now48, isoAgo(t2, 24)),
           Query("renew", now24, NoBound),
           Query("renew", now48, isoAgo(t2, 24)),
           Query("keys", NoBound, NoBound) >>

\* The six count queries of getStats, in the order of the calls; t1 and t2
\* are what Date.now() reads in isoAgo(24) and then in isoAgo(48).
StatsQueries(t1, t2) ==
    LET now24 == isoAgo(t1, 24)
        now48 == isoAgo(t2, 48)
    IN  << Query("buy", NoBound, NoBound),
           Query("buy", now24, NoBound),
           Query("buy", now48, now24),
           Query("renew", now24, NoBound),
           Query("renew", now48, now24),
           Query("keys", NoBound, NoBound) >>

\* The indexer's filters: .ge is an inclusive lower bound, .lt an exclusive
\* upper bound.
Matches(op, q) ==
    /\ op.kind = q.kind
    /\ q.ge = NoBound \/ op.timestamp >= q.ge
    /\ q.lt = NoBound \/ op.timestamp < q.lt

\* The count the indexer answers a query with, over the operations it
\* knows when it answers.
IndexerCount(ops, q) == Cardinality({i \in 1..Len(ops) : Matches(ops[i], q)})

\* getStats with the indexer answering every query over ops.
StatsOver(ops, t1, t2) ==
    LET queries == StatsQueries(t1, t2)
        counts == [i \in 1..6 |-> IndexerCount(ops, queries[i])]
    IN  Ret([queries |-> queries, counts |-> counts, stats |-> StatsOf(counts)])

\* The call time examined, and the instants around the window boundaries
\* at which operations are stamped; an operation stamped at or after the
\* call time reached the indexer before it answered.
CallTime == 50 * Hour

StampsAt(t) ==
    { t - 48 * Hour - 1, t - 48 * Hour, t - 48 * Hour + 1,
      t - 24 * Hour - 1, t - 24 * Hour, t - 1, t, t + 1 }

StatOps == {[kind |-> k, timestamp |-> ts] : k \in {"buy", "renew"}, ts \in StampsAt(CallTime)}

InitWindows ==
    /\ DashInit
    /\ call \in {[fn |-> "getStats.queries", ops |-> q, t1 |-> CallTime, t2 |-> CallTime + tick] :
                    q \in SeqUpTo(StatOps, MaxStatOps), tick \in 0..MaxClockTick}
    /\ ret = Pending

GetStatsCounts ==
    /\ call.fn = "getStats.queries"
    /\ ret = Pending
    /\ ret' = StatsOver(call.ops, call.t1, call.t2)
    /\ UNCHANGED <<dashVars, call>>

NextWindows == GetStatsCounts

SpecWindows == InitWindows /\ [][NextWindows]_vars

WindowsReturned == call.fn = "getStats.queries" /\ ret.t = "ret"

\* The number of operations of a kind stamped in [from, to).
StampedIn(kind, from, to) ==
    Cardinality({i \in 1..Len(call.ops) :
                    /\ call.ops[i].kind = kind
                    /\ from <= call.ops[i].timestamp
                    /\ call.ops[i].timestamp < to})

\* The number of operations of a kind stamped at or after from.
StampedFrom(kind, from) ==
    Cardinality({i \in 1..Len(call.ops) :
                    call.ops[i].kind = kind /\ from <= call.ops[i].timestamp})

\* C19 as claimed: with T the call time, the baseline query of each metric
\* counts exactly the timestamps in [T-48h, T-24h) and the current query
\* exactly those in [T-24h, T).
C19_WindowsAsClaimed ==
    WindowsReturned =>
        LET T == call.t1 IN
        /\ ret.v.counts[2] = StampedIn("buy", T - 24 * Hour, T)
        /\ ret.v.counts[3] = StampedIn("buy", T - 48 * Hour, T - 24 * Hour)
        /\ ret.v.counts[4] = StampedIn("renew", T - 24 * Hour, T)
        /\ ret.v.counts[5] = StampedIn("renew", T - 48 * Hour, T - 24 * Hour)

\* C19, amended: with T1 <= T2 the two readings of the clock, the baseline
\* query counts exactly the timestamps in [T2-48h, T1-24h) and the current
\* query exactly those at or after T1-24h, with no upper end; the windows
\* meet at T1-24h, no operation is counted in both, every operation stamped
\* at or after T2-48h is counted in exactly one, and acquisitions and
\* renewals use the same boundaries.
C19_Windows ==
    WindowsReturned =>
        LET q == ret.v.queries
            k == ret.v.counts
        IN  /\ k[2] = StampedFrom("buy", call.t1 - 24 * Hour)
            /\ k[3] = StampedIn("buy", call.t2 - 48 * Hour, call.t1 - 24 * Hour)
            /\ k[4] = StampedFrom("renew", call.t1 - 24 * Hour)
            /\ k[5] = StampedIn("renew", call.t2 - 48 * Hour, call.t1 - 24 * Hour)
            /\ q[3].lt = q[2].ge
            /\ q[5].lt = q[4].ge
            /\ <<q[2].ge, q[2].lt, q[3].ge, q[3].lt>> = <<q[4].ge, q[4].lt, q[5].ge, q[5].lt>>
            /\ \A i \in 1..Len(call.ops) :
                  LET op == call.ops[i]
                      cur == IF op.kind = "buy" THEN q[2] ELSE q[4]
                      base == IF op.kind = "buy" THEN q[3] ELSE q[5]
                  IN  /\ ~(Matches(op, cur) /\ Matches(op, base))
                      /\ op.timestamp >= call.t2 - 48 * Hour
                            => (Matches(op, cur) \/ Matches(op, base))

\* C19 witness: the clock moved between the two readings; an acquisition
\* stamped after the call time is in the current count, and one stamped
\* 48 hours before the first reading is in neither count.
C19_Witness ==
    /\ WindowsReturned
    /\ call.t2 > call.t1
    /\ call.ops = << [kind |-> "buy", timestamp |-> call.t1 + 1],
                     [kind |-> "buy", timestamp |-> call.t1 - 48 * Hour] >>
    /\ ret.v.counts[2] = 1
    /\ ret.v.counts[3] = 0
    /\ ret.v.stats.new24h = 1

--------------------------------------------------------------------------
(* TezosDashboard: loadData and what triggers it *)

\* getExtensionDistribution: a fixed list, no request.
getExtensionDistribution ==
    Ret(<<[name |-> ".tez", value |-> 100, color |-> "hsl(var(--primary))"]>>)

\* The ten HTTP requests of one loadData call: six counts (getStats), two
\* lists (getRecentActivity), one list each for getGrowthData and
\* getTopHolders.
CountRequests ==
    <<"totalBuys", "buysLast24h", "buysPrev24h", "renewsLast24h", "renewsPrev24h",
      "uniqueSenders">>
ListRequests == {"recentBuys", "recentRenews", "growthOps", "holderOps"}
Requests == {CountRequests[i] : i \in 1..6} \cup ListRequests

\* What the indexer answers while it is up: 17 acquisitions in all, 7 in the
\* last 24 hours against 1 before, 1 renewal against 0, 11 registry keys,
\* and short lists.
SampleNow == Midnight + 12
SampleZone == Zone(0, 0, Transition)

SampleBody(req) ==
    CASE req = "totalBuys" -> <<"1", "7">>
      [] req = "buysLast24h" -> <<"7">>
      [] req = "buysPrev24h" -> <<"1">>
      [] req = "renewsLast24h" -> <<"1">>
      [] req = "renewsPrev24h" -> <<"0">>
      [] req = "uniqueSenders" -> <<"1", "1">>
      [] req = "recentBuys" ->
            JSONstringify(<<[t |-> "obj", id |-> 3, timestamp |-> 3,
                             parameter |-> Param(Labelled(Text(TestLabel)))],
                            [t |-> "obj", id |-> 1, timestamp |-> 1,
                             parameter |-> Undefined]>>)
      [] req = "recentRenews" ->
            JSONstringify(<<[t |-> "obj", id |-> 2, timestamp |-> 2,
                             parameter |-> Param(Text(TestLabel))]>>)
      [] req = "growthOps" ->
            JSONstringify(<<GrowthOp(Num(SampleNow), Num(1500000)),
                            GrowthOp(Num(SampleNow - 240), Num(5000))>>)
      [] req = "holderOps" ->
            JSONstringify(<<OpFrom("tz1Y"), OpFrom("tz1X"), OpFrom("tz1X")>>)

Up(req) == Resp(TRUE, TRUE, SampleBody(req))
BadStatus(req) == Resp(FALSE, TRUE, SampleBody(req))
NullElement == Resp(TRUE, TRUE, JSONstringify(<<Null>>))

\* The outcomes examined for the ten requests of one call: all answered;
\* each failing, by a network error or by a non-success status in any mix;
\* exactly one failing; one list answered with a null element.
CycleOutcomes ==
    {[req \in Requests |-> Up(req)]}
    \cup {[req \in Requests |-> IF req \in net THEN NetFail ELSE BadStatus(req)] :
            net \in SUBSET Requests}
    \cup {[req \in Requests |-> IF req = bad THEN down ELSE Up(req)] :
            bad \in Requests, down \in {NetFail, Resp(FALSE, TRUE, <<>>)}}
    \cup {[req \in Requests |-> IF req = bad THEN NullElement ELSE Up(req)] :
            bad \in ListRequests}

HttpFailed(resp) == resp.net = "fail" \/ ~resp.ok

\* loadData up to its first await: the busy flag is set and the five
\* aggregator calls are issued.  met records, for each call in flight,
\* whether another call was in flight at some moment of its life.
StartLoad(isInitial) ==
    /\ started < MaxCycles
    /\ started' = started + 1
    /\ inflight' = {[c EXCEPT !.met = TRUE] : c \in inflight}
                    \cup {[id |-> started + 1, initial |-> isInitial,
                            met |-> inflight # {}]}
    /\ IF isInitial
       THEN loading' = TRUE /\ UNCHANGED refreshing
       ELSE refreshing' = TRUE /\ UNCHANGED loading
    /\ UNCHANGED <<stats, activity, growthData, topHolders, extensions, lastUpdated,
                   settled, last, call, ret>>

\* useEffect(() => { loadData(true)... }, [loadData]): once, on mount.
InitialLoad ==
    /\ started = 0
    /\ StartLoad(TRUE)

\* setInterval(() => loadData(false), POLL_INTERVAL), registered on mount.
TimerTick ==
    /\ started > 0
    /\ StartLoad(FALSE)

\* onClick={() => loadData(false)} disabled={refreshing}
ManualRefresh ==
    /\ started > 0
    /\ ~refreshing
    /\ StartLoad(FALSE)

\* What the five aggregator calls of loadData resolve to under the outcomes
\* o of the ten requests, with the set of requests that failed.
Settlement(o) ==
    [ s |-> getStats([i \in 1..6 |-> o[CountRequests[i]]]),
      a |-> getRecentActivity(o["recentBuys"], o["recentRenews"]),
      g |-> getGrowthData(o["growthOps"], SampleNow, SampleZone),
      h |-> getTopHolders(o["holderOps"]),
      e |-> getExtensionDistribution,
      failed |-> {req \in Requests : HttpFailed(o[req])} ]

Settlements == {Settlement(o) : o \in CycleOutcomes}

\* Promise.all rejects when one of its five promises does.
Rejected(r) == \E x \in {r.s, r.a, r.g, r.h, r.e} : x.t = "throw"

\* A variant that drops the results of a call that is not the one started
\* last.
CommitIfLatest(c, r) ==
    IF Rejected(r) \/ c.id # started
    THEN UNCHANGED <<stats, activity, growthData, topHolders, extensions, lastUpdated>>
    ELSE /\ stats' = r.s.v
         /\ activity' = r.a.v
         /\ growthData' = r.g.v
         /\ topHolders' = r.h.v
         /\ extensions' = r.e.v
         /\ lastUpdated' = Num(settled + 1)

\* A variant that commits, of a rejected call, the results that resolved.
CommitPartial(c, r) ==
    /\ stats' = r.s.v
    /\ activity' = IF r.a.t = "ret" THEN r.a.v ELSE activity
    /\ growthData' = IF r.g.t = "ret" THEN r.g.v ELSE growthData
    /\ topHolders' = IF r.h.t = "ret" THEN r.h.v ELSE topHolders
    /\ extensions' = r.e.v
    /\ lastUpdated' = IF Rejected(r) THEN lastUpdated ELSE Num(settled + 1)

\* The try and catch of loadData once Promise.all has settled for call c:
\* the five setters and setLastUpdated, or the rejection caught and logged
\* with no setter run.
Commit(c, r) ==
    IF Rejected(r)
    THEN UNCHANGED <<stats, activity, growthData, topHolders, extensions, lastUpdated>>
    ELSE /\ stats' = r.s.v
         /\ activity' = r.a.v
         /\ growthData' = r.g.v
         /\ topHolders' = r.h.v
         /\ extensions' = r.e.v
         /\ lastUpdated' = Num(settled + 1)

\* loadData from the settling of Promise.all to its end: the five results
\* are committed, or the rejection is caught and logged; finally the busy
\* flag is cleared.  last records the call that settled and what it
\* settled with.
LoadSettles ==
    \E c \in inflight, r \in Settlements :
        /\ inflight' = inflight \ {c}
        /\ settled' = settled + 1
        /\ Commit(c, r)
        /\ IF c.initial
           THEN loading' = FALSE /\ UNCHANGED refreshing
           ELSE refreshing' = FALSE /\ UNCHANGED loading
        /\ last' = [id |-> c.id, initial |-> c.initial, met |-> c.met,
                    failed |-> r.failed, results |-> r,
                    path |-> IF Rejected(r) THEN "catch" ELSE "success"]
        /\ UNCHANGED <<started, call, ret>>

Init ==
    /\ DashInit
    /\ call = Idle
    /\ ret = Pending

Next == InitialLoad \/ TimerTick \/ ManualRefresh \/ LoadSettles

Spec == Init /\ [][Next]_vars

ZeroStats ==
    [ totalDomains |-> 0, new24h |-> 0, renewals24h |-> 0, activeUsers |-> 0,
      totalDomainsChange |-> Null, new24hChange |-> Null, renewalsChange |-> Null,
      activeUsersChange |-> Null ]

\* C1: when every HTTP request of a refresh cycle fails, the aggregator
\* calls all resolve, to a snapshot of zero counts and null changes, an empty
\* feed, an empty growth series and an empty leaderboard, and loadData
\* commits them on its success path.
C1_AllRequestsFail ==
    (last # NoCycle /\ last.failed = Requests) =>
        /\ last.path = "success"
        /\ stats = ZeroStats
        /\ activity = <<>>
        /\ growthData = <<>>
        /\ topHolders = <<>>
        /\ lastUpdated = Num(settled)

\* C1 witness: the second cycle to settle has all ten requests fail; it is
\* committed on the success path and leaves the display empty.
C1_Witness ==
    /\ settled = 2
    /\ last # NoCycle
    /\ last.failed = Requests
    /\ last.path = "success"
    /\ stats = ZeroStats
    /\ lastUpdated = Num(2)

\* What is on display, and what a settlement r puts there.
Displayed ==
    [s |-> stats, a |-> activity, g |-> growthData, h |-> topHolders, e |-> extensions]

ResultsOf(r) == [s |-> r.s.v, a |-> r.a.v, g |-> r.g.v, h |-> r.h.v, e |-> r.e.v]

\* C13: when calls of loadData overlap, each runs to its end, and after a
\* call that overlapped another has settled with its five results, the
\* display holds that call's results, whichever of the calls started first.
C13_LastSettledWins ==
    (last # NoCycle /\ last.met /\ last.path = "success") =>
        /\ Displayed = ResultsOf(last.results)
        /\ lastUpdated = Num(settled)

\* C13 witness: the call started first settles second, after a call
\* started later and still in flight beside it, and its results are on
\* display.
C13_Witness ==
    /\ settled = 2
    /\ last # NoCycle
    /\ last.id = 1
    /\ last.met
    /\ last.path = "success"
    /\ last.failed = {}
    /\ Displayed = ResultsOf(last.results)
    /\ lastUpdated = Num(2)

\* C14: a call of loadData in which an aggregator raised ends in catch and
\* leaves stats, activity, growthData, topHolders, extensions and
\* lastUpdated as they were.
C14_NoPartialUpdate ==
    [][(settled' = settled + 1 /\ last'.path = "catch")
          => UNCHANGED <<stats, activity, growthData, topHolders, extensions,
                         lastUpdated>>]_vars

\* C14 witness: the second call to settle was rejected, and the display
\* still holds what the first committed.
C14_Witness ==
    /\ settled = 2
    /\ last # NoCycle
    /\ last.path = "catch"
    /\ stats # Null
    /\ lastUpdated = Num(1)

\* C18 as claimed: refreshing is true whenever a call loadData(false) is in
\* flight.
C18_RefreshingWhileInFlight ==
    (\E c \in inflight : ~c.initial) => refreshing

--------------------------------------------------------------------------
(* loadData, one aggregator call at a time *)

\* The five promises handed to Promise.all, and those among them that can
\* reject: the aggregators that read the elements of a fetched list.
Aggregators ==
    {"getStats", "getRecentActivity", "getGrowthData", "getTopHolders",
     "getExtensionDistribution"}

MayRaise == {"getRecentActivity", "getGrowthData", "getTopHolders"}

\* loadData up to its await.  A call in flight carries the aggregator calls
\* not yet settled and whether one of them has rejected.  MaxLoads calls
\* are examined, at most two of them in flight together.
BeginLoad(isInitial) ==
    /\ started < MaxLoads
    /\ Cardinality(inflight) < 2
    /\ started' = started + 1
    /\ inflight' = inflight \cup {[id |-> started + 1, initial |-> isInitial,
                                   pending |-> Aggregators, rejected |-> FALSE]}
    /\ IF isInitial
       THEN loading' = TRUE /\ UNCHANGED refreshing
       ELSE refreshing' = TRUE /\ UNCHANGED loading
    /\ UNCHANGED <<stats, activity, growthData, topHolders, extensions, lastUpdated,
                   settled, last, call, ret>>

MountLoad ==
    /\ started = 0
    /\ BeginLoad(TRUE)

IntervalLoad ==
    /\ started > 0
    /\ BeginLoad(FALSE)

ButtonLoad ==
    /\ started > 0
    /\ ~refreshing
    /\ BeginLoad(FALSE)

\* One aggregator call of a call in flight settles, its HTTP requests
\* having settled: it resolves, or it rejects.
AggregatorSettles ==
    \E c \in inflight, a \in Aggregators, raises \in BOOLEAN :
        /\ a \in c.pending
        /\ raises => a \in MayRaise
        /\ inflight' = (inflight \ {c})
                        \cup {[c EXCEPT !.pending = @ \ {a}, !.rejected = @ \/ raises]}
        /\ UNCHANGED <<stats, activity, growthData, topHolders, extensions, lastUpdated,
                       loading, refreshing, started, settled, last, call, ret>>

\* Promise.all has settled for c: every promise has resolved, or one has
\* rejected.
AllSettled(c) == c.pending = {} \/ c.rejected

\* A variant of the end of loadData without finally: the flag is cleared
\* on the success path only.
ClearBusyOnSuccess(c) ==
    IF c.rejected THEN UNCHANGED <<loading, refreshing>>
    ELSE IF c.initial THEN loading' = FALSE /\ UNCHANGED refreshing
    ELSE refreshing' = FALSE /\ UNCHANGED loading

\* finally { if (isInitial) setLoading(false); else setRefreshing(false); }
ClearBusy(c) ==
    IF c.initial THEN loading' = FALSE /\ UNCHANGED refreshing
    ELSE refreshing' = FALSE /\ UNCHANGED loading

\* What call c puts on display for aggregator a.
ResultOf(c, a) == [cycle |-> c.id, of |-> a]

\* loadData resumes after the await and runs to its end.  last records the
\* call that completed and whether all its aggregator calls had settled.
LoadCompletes ==
    \E c \in inflight :
        /\ AllSettled(c)
        /\ inflight' = inflight \ {c}
        /\ settled' = settled + 1
        /\ IF c.rejected
           THEN UNCHANGED <<stats, activity, growthData, topHolders, extensions,
                            lastUpdated>>
           ELSE /\ stats' = ResultOf(c, "getStats")
                /\ activity' = ResultOf(c, "getRecentActivity")
                /\ growthData' = ResultOf(c, "getGrowthData")
                /\ topHolders' = ResultOf(c, "getTopHolders")
                /\ extensions' = ResultOf(c, "getExtensionDistribution")
                /\ lastUpdated' = Num(settled + 1)
        /\ ClearBusy(c)
        /\ last' = [id |-> c.id, initial |-> c.initial, allSettled |-> c.pending = {},
                    path |-> IF c.rejected THEN "catch" ELSE "success"]
        /\ UNCHANGED <<started, call, ret>>

NextCycle == MountLoad \/ IntervalLoad \/ ButtonLoad \/ AggregatorSettles \/ LoadCompletes

\* Every HTTP request settles in the end, so every pending aggregator call
\* does; and a settled Promise.all resumes loadData.
SpecCycle ==
    /\ Init
    /\ [][NextCycle]_vars
    /\ WF_vars(AggregatorSettles)
    /\ WF_vars(LoadCompletes)

Running(i) == \E c \in inflight : c.id = i

\* C16 as claimed: a call of loadData completes only after all five
\* aggregator calls have settled.
C16_OnlyAfterAllSettled ==
    last # NoCycle => last.allSettled

\* C16, amended: every call of loadData that is started completes in the
\* end; it completes on the success path only after all five aggregator
\* calls have resolved, and on the catch path as soon as one has rejected,
\* whatever the others have done; either way it clears its busy flag,
\* loading for the initial call and refreshing for any other.
C16_CyclesComplete ==
    /\ \A i \in 1..MaxLoads : Running(i) ~> ~Running(i)
    /\ [][settled' = settled + 1 =>
            /\ last'.path = "success" => last'.allSettled
            /\ last'.path = "catch" \/ last'.path = "success"
            /\ IF last'.initial THEN ~loading' ELSE ~refreshing']_vars

\* C16 witness: a call of loadData(false) has completed on the catch path
\* with aggregator calls of its own still pending, and refreshing is
\* cleared.
C16_Witness ==
    /\ last # NoCycle
    /\ ~last.initial
    /\ last.path = "catch"
    /\ ~last.allSettled
    /\ ~refreshing
    /\ inflight = {}

====
